---- MODULE Spec2Model ----
(***************************************************************************)
(* Model of src/app.py (silver-tracker, "Nebula Quantum Analytics").       *)
(*                                                                         *)
(* Three specifications share the module:                                  *)
(*   SpecIngest   process_csv applied to bounded CSV inputs                *)
(*   SpecMetrics  the derived series (MA7, Returns) applied to bounded     *)
(*                price columns                                            *)
(*   Spec         the streamlit session: uploads, mode switches, the       *)
(*                "Add Entry" form, script reruns                          *)
(*                                                                         *)
(* Values.  A CSV cell or a header is text: a tuple of one-character       *)
(* strings.  Typed values carry a tag that is not a character:             *)
(*   <<"NaN">>        missing (NaN / NaT / None in a frame)                *)
(*   <<"num", n>>     a number                                             *)
(*   <<"ts", d>>      a Timestamp, d the day number                        *)
(*   <<"frac", a, b>> the exact quotient a / b                             *)
(*   <<"inf">>, <<"-inf">>  the IEEE infinities                            *)
(* A frame is [is_none, columns, rows]; rows are tuples, one value per     *)
(* column.                                                                 *)
(*                                                                         *)
(* Library behaviour the model takes as given:                             *)
(*   - read_csv types a column of text as object, a column of numbers and  *)
(*     empty cells as numeric;                                             *)
(*   - to_datetime parses cell by cell; the date texts of the inputs are   *)
(*     "2025-01-17", "Jan 16 2025" and "Jan 17 2025", anything else is NaT;*)
(*   - to_numeric reads decimal integers; prices are whole numbers;        *)
(*   - sort_values keeps rows of equal key in their given order (frames    *)
(*     this small are insertion-sorted) and puts missing keys last;        *)
(*   - a file_uploader hands the script its file, readable from the start, *)
(*     on every run while the file is held.                                *)
(***************************************************************************)
EXTENDS Integers, Sequences, FiniteSets, TLC

VARIABLES
    file1,          \* the primary file_uploader's content (NoFile when empty)
    file2,          \* the secondary file_uploader's content
    mode,           \* the sidebar radio
    data_1,         \* st.session_state.data_1
    data_2,         \* st.session_state.data_2
    pc,             \* "idle": waiting for the user; "rerun": st.rerun() pending
    view,           \* what the last script run rendered
    uploaded_file,  \* SpecIngest: the argument of process_csv
    result,         \* SpecIngest: what process_csv returned
    prices,         \* SpecMetrics: a price column
    derived         \* SpecMetrics: the series computed from it

vars == <<file1, file2, mode, data_1, data_2, pc, view,
          uploaded_file, result, prices, derived>>

----------------------------------------------------------------------------
(* Values *)

NaN == <<"NaN">>
Num(n) == <<"num", n>>
Ts(d) == <<"ts", d>>
Frac(a, b) == <<"frac", a, b>>
Inf == <<"inf">>
NegInf == <<"-inf">>
NoneStr == <<"None">>

IsNum(v) == Len(v) = 2 /\ v[1] = "num"
IsTs(v) == Len(v) = 2 /\ v[1] = "ts"

NoneDF == [is_none |-> TRUE, columns |-> <<>>, rows |-> <<>>]
DataFrame(columns, rows) == [is_none |-> FALSE, columns |-> columns, rows |-> rows]

----------------------------------------------------------------------------
(* Python / pandas primitives used by app.py *)

Whitespace == {" "}
Digits == {"0", "1", "2", "3", "4", "5", "6", "7", "8", "9"}

DigitVal(c) ==
    CASE c = "0" -> 0 [] c = "1" -> 1 [] c = "2" -> 2 [] c = "3" -> 3
      [] c = "4" -> 4 [] c = "5" -> 5 [] c = "6" -> 6 [] c = "7" -> 7
      [] c = "8" -> 8 [] OTHER -> 9

RECURSIVE LStrip(_)
LStrip(s) == IF s # <<>> /\ Head(s) \in Whitespace THEN LStrip(Tail(s)) ELSE s

RECURSIVE RStrip(_)
RStrip(s) ==
    IF s # <<>> /\ s[Len(s)] \in Whitespace
    THEN RStrip(SubSeq(s, 1, Len(s) - 1))
    ELSE s

\* str.strip()
Strip(s) == RStrip(LStrip(s))

\* needle in hay (substring test, case-sensitive)
Contains(hay, needle) ==
    \E i \in 0..(Len(hay) - Len(needle)) : SubSeq(hay, i + 1, i + Len(needle)) = needle

\* str.replace(ch, '')
Remove(s, ch) == SelectSeq(s, LAMBDA c : c # ch)

\* A decimal literal: digits, with an optional leading minus sign.
IsNumericLiteral(s) ==
    LET body == IF s # <<>> /\ Head(s) = "-" THEN Tail(s) ELSE s
    IN  body # <<>> /\ \A i \in 1..Len(body) : body[i] \in Digits

RECURSIVE DigitsValue(_)
DigitsValue(s) ==
    IF s = <<>> THEN 0 ELSE 10 * DigitsValue(SubSeq(s, 1, Len(s) - 1)) + DigitVal(s[Len(s)])

LiteralValue(s) == IF Head(s) = "-" THEN 0 - DigitsValue(Tail(s)) ELSE DigitsValue(s)

\* pd.to_numeric(errors='coerce') on one value
ToNumeric(v) ==
    IF IsNum(v) THEN v
    ELSE IF v = NaN \/ IsTs(v) THEN NaN
    ELSE IF IsNumericLiteral(v) THEN Num(LiteralValue(v))
    ELSE NaN

\* astype(str) on one value of an object column: a missing cell becomes 'nan'
AsStr(v) == IF v = NaN THEN <<"n", "a", "n">> ELSE v

\* The date texts pandas recognises among the sample inputs, with their day.
Iso17 == <<"2", "0", "2", "5", "-", "0", "1", "-", "1", "7">>
Mon16 == <<"J", "a", "n", " ", "1", "6", " ", "2", "0", "2", "5">>
Mon17 == <<"J", "a", "n", " ", "1", "7", " ", "2", "0", "2", "5">>

\* pd.to_datetime(errors='coerce') on one value.  Days are counted from
\* 2024-12-31, so that Jan 16 2025 is day 16.  A number is nanoseconds since
\* the epoch, a day long before; it is day 0 here.
ToDatetime(v) ==
    IF IsTs(v) THEN v
    ELSE IF v = NaN THEN NaN
    ELSE IF IsNum(v) THEN Ts(0)
    ELSE IF v = Iso17 \/ v = Mon17 THEN Ts(17)
    ELSE IF v = Mon16 THEN Ts(16)
    ELSE NaN

\* The first position of a column name (df[name] when the name is unique).
IndexOf(columns, name) == CHOOSE i \in 1..Len(columns) : columns[i] = name /\ \A j \in 1..(i - 1) : columns[j] # name

HasColumn(columns, name) == \E i \in 1..Len(columns) : columns[i] = name

CountOf(columns, name) == Cardinality({i \in 1..Len(columns) : columns[i] = name})

\* Series order of sort_values: missing keys last, ties in their given order.
KeyLT(a, b) == a # NaN /\ (b = NaN \/ a[2] < b[2])

RECURSIVE Insert(_, _, _)
Insert(sorted, row, k) ==
    IF sorted = <<>> THEN <<row>>
    ELSE IF KeyLT(row[k], sorted[Len(sorted)][k])
         THEN Append(Insert(SubSeq(sorted, 1, Len(sorted) - 1), row, k), sorted[Len(sorted)])
         ELSE Append(sorted, row)

RECURSIVE InsertionSort(_, _)
InsertionSort(rows, k) ==
    IF rows = <<>> THEN <<>>
    ELSE Insert(InsertionSort(SubSeq(rows, 1, Len(rows) - 1), k), rows[Len(rows)], k)

----------------------------------------------------------------------------
(* process_csv *)

\* pd.read_csv raises on an empty source and on a row with more fields than
\* the header.
ReadCsvRaises(f) ==
    \/ f.header = <<>>
    \/ \E i \in 1..Len(f.rows) : Len(f.rows[i]) > Len(f.header)

\* A column read_csv types as numeric: every cell is empty or a number.
ColumnIsNumeric(f, j) ==
    \A i \in 1..Len(f.rows) :
        j > Len(f.rows[i]) \/ f.rows[i][j] = <<>> \/ IsNumericLiteral(f.rows[i][j])

\* The value read_csv gives one cell: a short row is padded with NaN, an
\* empty cell is NaN, a cell of a numeric column is its number.
ReadCell(f, i, j) ==
    IF j > Len(f.rows[i]) \/ f.rows[i][j] = <<>> THEN NaN
    ELSE IF ColumnIsNumeric(f, j) THEN Num(LiteralValue(f.rows[i][j]))
    ELSE f.rows[i][j]

read_csv(f) ==
    DataFrame(f.header,
              [i \in 1..Len(f.rows) |-> [j \in 1..Len(f.header) |-> ReadCell(f, i, j)]])

\* line 61: df.columns = [str(c).strip() for c in df.columns]
CleanColumns(columns) == [i \in 1..Len(columns) |-> Strip(columns[i])]

\* line 64: 'Price' in c or 'price' in c
HasPrice(c) == Contains(c, <<"P", "r", "i", "c", "e">>) \/ Contains(c, <<"p", "r", "i", "c", "e">>)

\* line 70: 'Date' in c or 'date' in c
HasDate(c) == Contains(c, <<"D", "a", "t", "e">>) \/ Contains(c, <<"d", "a", "t", "e">>)

\* Mutant of FirstMatch: the last candidate, [-1], instead of the first.
FirstMatch_last(candidates) ==
    IF candidates = <<>> THEN <<>> ELSE <<candidates[Len(candidates)]>>

\* lines 64, 70: [c for c in df.columns if ...][0]; <<>> stands for IndexError
FirstMatch(candidates) == IF candidates = <<>> THEN <<>> ELSE <<candidates[1]>>

\* line 65: df[price_col].dtype == 'object'
IsObjectColumn(rows, k) == \E i \in 1..Len(rows) : rows[i][k] # NaN /\ ~IsNum(rows[i][k])

\* lines 66-67 on one value
CleanPrice(v) == ToNumeric(Strip(Remove(Remove(AsStr(v), "₹"), ",")))

\* lines 65-67 on the frame's rows
CleanPriceColumn(rows, k) ==
    IF IsObjectColumn(rows, k)
    THEN [i \in 1..Len(rows) |-> [rows[i] EXCEPT ![k] = CleanPrice(rows[i][k])]]
    ELSE rows

\* line 71
CleanDateColumn(rows, k) ==
    [i \in 1..Len(rows) |-> [rows[i] EXCEPT ![k] = ToDatetime(rows[i][k])]]

\* Mutant of DropNa: dropna() without subset, any missing value drops the row.
DropNa_any(rows, di, pi) ==
    SelectSeq(rows, LAMBDA r : \A j \in 1..Len(r) : r[j] # NaN)

\* line 72: dropna(subset=[date_col, price_col])
DropNa(rows, di, pi) == SelectSeq(rows, LAMBDA r : r[di] # NaN /\ r[pi] # NaN)

\* Mutant of SortValues: the sort left out.
SortValues_omitted(rows, k) == rows

\* line 72: sort_values(date_col)
SortValues(rows, k) == InsertionSort(rows, k)

\* lines 75-77
Failed == [done |-> TRUE, df |-> NoneDF, date_col |-> NoneStr, price_col |-> NoneStr]

process_csv(f) ==
    IF ReadCsvRaises(f) THEN Failed
    ELSE
    LET df == read_csv(f)
        columns == CleanColumns(df.columns)
        price_found == FirstMatch(SelectSeq(columns, HasPrice))
        date_found == FirstMatch(SelectSeq(columns, HasDate))
    IN  IF price_found = <<>> \/ date_found = <<>> THEN Failed
        ELSE
        LET price_col == price_found[1]
            date_col == date_found[1]
        IN  \* df[col] of a repeated name is a frame: .dtype and to_datetime raise
            IF CountOf(columns, price_col) > 1 \/ CountOf(columns, date_col) > 1 THEN Failed
            ELSE
            LET pi == IndexOf(columns, price_col)
                di == IndexOf(columns, date_col)
                cleaned == CleanDateColumn(CleanPriceColumn(df.rows, pi), di)
            IN  [done |-> TRUE,
                 df |-> DataFrame(columns, SortValues(DropNa(cleaned, di, pi), di)),
                 date_col |-> date_col,
                 price_col |-> price_col]

----------------------------------------------------------------------------
(* Derived series of the Overview page, over a price column without gaps *)

Window == 7

RECURSIVE SumValues(_)
SumValues(series) ==
    IF series = <<>> THEN 0 ELSE series[1][2] + SumValues(Tail(series))

\* Series.rolling(w).mean(): missing until w values are in the window.
RollingMean(series, w) ==
    [i \in 1..Len(series) |->
        IF i < w THEN NaN ELSE Frac(SumValues(SubSeq(series, i - w + 1, i)), w)]

\* Mutant of MA7: rolling(7, min_periods=1), a partial window averaged.
MA7_partial(series) ==
    [i \in 1..Len(series) |->
        IF i < Window THEN Frac(SumValues(SubSeq(series, 1, i)), i)
        ELSE Frac(SumValues(SubSeq(series, i - Window + 1, i)), Window)]

\* line 148: filtered_df[p_col].rolling(7).mean()
MA7(series) == RollingMean(series, Window)

\* IEEE division x / 0 as numpy does it.
DivideByZero(x) == IF x > 0 THEN Inf ELSE IF x < 0 THEN NegInf ELSE NaN

\* line 176: filtered_df[p_col].pct_change() * 100
Returns(series) ==
    [i \in 1..Len(series) |->
        IF i = 1 THEN NaN
        ELSE LET cur == series[i][2]
                 prev == series[i - 1][2]
             IN  IF prev = 0 THEN DivideByZero(cur - prev)
                 ELSE Frac((cur - prev) * 100, prev)]

----------------------------------------------------------------------------
(* The script body: sidebar (lines 86-99) and main logic (lines 102-241) *)

NoFile == <<>>      \* an uploader holds <<>> (no file) or <<f>>

Modes == {"Overview Analytics", "Dual CSV Compare", "Data Management"}

c_Date == <<"D", "a", "t", "e">>
c_PriceGram == <<"P", "r", "i", "c", "e", " ", "(", "P", "e", "r", " ", "G", "r", "a", "m", ")">>
c_Trend == <<"T", "r", "e", "n", "d">>
c_MA7 == <<"M", "A", "7">>
c_Returns == <<"R", "e", "t", "u", "r", "n", "s">>

\* line 104
d_col == c_Date
p_col == c_PriceGram

\* lines 94-95 and 98-99: a held file is processed on every run of the script
Sidebar(file, data) == IF file # NoFile THEN process_csv(file[1]).df ELSE data

Column(df, name) == [i \in 1..Len(df.rows) |-> df.rows[i][IndexOf(df.columns, name)]]

\* A column pandas holds as datetimes (numbers), with at least one value.
IsDatetimeColumn(df, name) ==
    /\ HasColumn(df.columns, name)
    /\ \A i \in 1..Len(df.rows) : Column(df, name)[i] = NaN \/ IsTs(Column(df, name)[i])
    /\ \E i \in 1..Len(df.rows) : IsTs(Column(df, name)[i])

IsNumberColumn(df, name) ==
    /\ HasColumn(df.columns, name)
    /\ \A i \in 1..Len(df.rows) : Column(df, name)[i] = NaN \/ IsNum(Column(df, name)[i])
    /\ \E i \in 1..Len(df.rows) : IsNum(Column(df, name)[i])

\* Series.min() / .max(), missing values skipped
Known(series) == {series[i][2] : i \in {k \in 1..Len(series) : series[k] # NaN}}
MinValue(series) == CHOOSE x \in Known(series) : \A y \in Known(series) : x <= y
MaxValue(series) == CHOOSE x \in Known(series) : \A y \in Known(series) : y <= x

\* df1['Trend'].unique() if 'Trend' in df1.columns else [] (line 117)
TrendOptions(df1) ==
    IF HasColumn(df1.columns, c_Trend)
    THEN {Column(df1, c_Trend)[i] : i \in 1..Len(df1.rows)} \ {NaN}
    ELSE {}

NoFilter == [chosen |-> FALSE, lo |-> 0, hi |-> 0, trends |-> {}, limit |-> 0]

\* The widgets' defaults (lines 115-118): the whole window, no trend, the
\* lowest price.
DefaultFilter(df1) ==
    [chosen |-> TRUE,
     lo |-> MinValue(Column(df1, d_col)), hi |-> MaxValue(Column(df1, d_col)),
     trends |-> {},
     limit |-> MinValue(Column(df1, p_col))]

\* What the user can set the three widgets to (the ends of each range).
FilterChoices(df1) ==
    {[chosen |-> TRUE, lo |-> lo, hi |-> hi, trends |-> t, limit |-> limit] :
        lo \in {MinValue(Column(df1, d_col))},
        hi \in {MinValue(Column(df1, d_col)), MaxValue(Column(df1, d_col))},
        t \in {{}} \cup {{x} : x \in TrendOptions(df1)},
        limit \in {MinValue(Column(df1, p_col)), MaxValue(Column(df1, p_col))}}

\* lines 121-124 on one row
Mask(df1, flt, r) ==
    LET d == r[IndexOf(df1.columns, d_col)]
        p == r[IndexOf(df1.columns, p_col)]
    IN  /\ IsTs(d) /\ flt.lo <= d[2] /\ d[2] <= flt.hi
        /\ flt.trends # {} => r[IndexOf(df1.columns, c_Trend)] \in flt.trends
        /\ IsNum(p) /\ p[2] >= flt.limit

\* line 125: filtered_df = df1[mask], a new frame
Filtered(df1, flt) == DataFrame(df1.columns, SelectSeq(df1.rows, LAMBDA r : Mask(df1, flt, r)))

\* df[name] = series, on a frame that has no such column yet
WithColumn(df, name, series) ==
    DataFrame(Append(df.columns, name),
              [i \in 1..Len(df.rows) |-> Append(df.rows[i], series[i])])

\* What the expander needs (lines 113-118): the two hard-coded columns, as
\* datetimes and numbers.
ExpanderRenders(df1) == IsDatetimeColumn(df1, d_col) /\ IsNumberColumn(df1, p_col)

View(screen, flt, frame) == [screen |-> screen, filter |-> flt, frame |-> frame]

\* lines 107-180: the frame the charts are drawn from, or the exception
OverviewView(df1, flt) ==
    IF ~ExpanderRenders(df1) THEN View("error", NoFilter, NoneDF)
    ELSE LET filtered_df == Filtered(df1, flt)
         IN  IF filtered_df.rows = <<>> THEN View("error", flt, NoneDF)    \* iloc[-1], line 129
             ELSE View("overview", flt,
                       WithColumn(WithColumn(filtered_df, c_MA7, MA7(Column(filtered_df, p_col))),
                                  c_Returns, Returns(Column(filtered_df, p_col))))

\* Mutant of Overview: MA7 and Returns assigned on the session's frame
\* (df1 filtered in place) instead of on the copy.
Overview_inplace(df1, flt) ==
    [data_1 |-> IF OverviewView(df1, flt).screen = "overview"
                THEN OverviewView(df1, flt).frame ELSE df1,
     view |-> OverviewView(df1, flt)]

\* lines 107-180: the session's frame after the page, and the page
Overview(df1, flt) == [data_1 |-> df1, view |-> OverviewView(df1, flt)]

\* lines 183-210
DualCompare(df1, df2) ==
    IF df2.is_none THEN View("warning", NoFilter, NoneDF)
    ELSE IF /\ IsNumberColumn(df1, p_col) /\ IsNumberColumn(df2, p_col)
            /\ HasColumn(df1.columns, d_col) /\ HasColumn(df2.columns, d_col)
         THEN View("compare", NoFilter, NoneDF)
         ELSE View("error", NoFilter, NoneDF)

\* line 232: df1.sort_values(d_col, ascending=False)
SortDescending(rows, k) ==
    LET dated == SelectSeq(rows, LAMBDA r : r[k] # NaN)
        asc == InsertionSort(dated, k)
    IN  [i \in 1..Len(asc) |-> asc[Len(asc) + 1 - i]] \o SelectSeq(rows, LAMBDA r : r[k] = NaN)

\* lines 231-234: the archive tab
Ledger(df1) ==
    IF HasColumn(df1.columns, d_col)
    THEN View("ledger", NoFilter,
              DataFrame(df1.columns, SortDescending(df1.rows, IndexOf(df1.columns, d_col))))
    ELSE View("error", NoFilter, NoneDF)

\* line 226: the one-row frame of the form's values
NewRowColumns == <<d_col, p_col, c_Trend>>
NewRowValue(name, new_date, new_price, new_trend) ==
    IF name = d_col THEN Ts(new_date)
    ELSE IF name = p_col THEN Num(new_price)
    ELSE IF name = c_Trend THEN new_trend
    ELSE NaN

\* pd.concat([df, new_row], ignore_index=True): the union of the columns,
\* df's first; a value a frame has no column for is missing.
Concat(df, new_date, new_price, new_trend) ==
    LET added == SelectSeq(NewRowColumns, LAMBDA c : ~HasColumn(df.columns, c))
        columns == df.columns \o added
    IN  DataFrame(columns,
                  Append([i \in 1..Len(df.rows) |-> df.rows[i] \o [j \in 1..Len(added) |-> NaN]],
                         [j \in 1..Len(columns) |->
                             NewRowValue(columns[j], new_date, new_price, new_trend)]))

\* line 227
AppendRow(df, new_date, new_price, new_trend) ==
    LET both == Concat(df, new_date, new_price, new_trend)
    IN  DataFrame(both.columns, SortValues(both.rows, IndexOf(both.columns, d_col)))

\* The filter widgets keep their values from one run to the next while they
\* are drawn with the same arguments; otherwise they show their defaults.
FilterShown(df1) ==
    IF view.filter.chosen /\ mode = "Overview Analytics" /\ df1 = data_1
    THEN view.filter
    ELSE IF ExpanderRenders(df1) THEN DefaultFilter(df1) ELSE NoFilter

\* lines 102-241 without a form submit: the session's frame and the page
MainLogic(m, df1, df2, flt) ==
    IF df1.is_none THEN [data_1 |-> df1, view |-> View("landing", NoFilter, NoneDF)]
    ELSE IF m = "Overview Analytics" THEN Overview(df1, flt)
    ELSE IF m = "Dual CSV Compare" THEN [data_1 |-> df1, view |-> DualCompare(df1, df2)]
    ELSE [data_1 |-> df1, view |-> Ledger(df1)]

----------------------------------------------------------------------------
(* Bounded CSV inputs *)

MaxRows == 3

c_Price == <<"P", "r", "i", "c", "e">>
c_date == <<"d", "a", "t", "e">>
c_price == <<"p", "r", "i", "c", "e">>
c_DATE == <<"D", "A", "T", "E">>
c_PRICE == <<"P", "R", "I", "C", "E">>
c_OrderDate == <<"O", "r", "d", "e", "r", " ", "D", "a", "t", "e">>
c_Sales == <<"S", "a", "l", "e", "s">>
c_ClosePrice == <<"C", "l", "o", "s", "e", " ", "P", "r", "i", "c", "e">>
c_UpdateDate == <<"U", "p", "d", "a", "t", "e", " ", "d", "a", "t", "e">>

Col(name, kind) == [name |-> name, kind |-> kind]

\* Header layouts.  kind tells the input generator which cells to put in the
\* column; process_csv never sees it.
Layouts ==
    { << Col(c_Date, "date"), Col(c_PriceGram, "price"), Col(c_Trend, "text") >>,
      << Col(<<" ">> \o c_Date \o <<" ">>, "date"), Col(c_PriceGram \o <<" ">>, "price") >>,
      << Col(c_price, "price"), Col(c_date, "date") >>,
      << Col(c_DATE, "date"), Col(c_PRICE, "price") >>,
      << Col(c_OrderDate, "date"), Col(c_Sales, "price") >>,
      << Col(<<" ">> \o c_ClosePrice, "price"), Col(c_UpdateDate, "date"),
         Col(c_Date, "date2"), Col(c_Price, "price2") >>,
      << Col(c_Date, "date"), Col(c_Date \o <<" ">>, "date2"), Col(c_Price, "price") >>,
      << Col(c_Trend, "text") >> }

DateCells == {Iso17, Mon16, <<"n", "/", "a">>}
PriceCells == {<<"9">>, <<"₹", " ", "1", ",", "2">>, <<"a", "b", "c">>, <<>>}
TextCells == {<<"U", "p">>, <<>>}

\* A second candidate column holds a good cell where the first holds a bad
\* one and the reverse, so that resolving to the wrong column shows.
OtherDate(d) == IF ToDatetime(d) = NaN THEN Mon17 ELSE <<"?">>
OtherPrice(p) == IF CleanPrice(p) = NaN THEN <<"7">> ELSE <<"x">>

MkRow(layout, d, p, t) ==
    [j \in 1..Len(layout) |->
        CASE layout[j].kind = "date" -> d
          [] layout[j].kind = "price" -> p
          [] layout[j].kind = "date2" -> OtherDate(d)
          [] layout[j].kind = "price2" -> OtherPrice(p)
          [] OTHER -> t]

RowsOf(layout) == {MkRow(layout, d, p, t) : d \in DateCells, p \in PriceCells, t \in TextCells}

HeaderOf(layout) == [j \in 1..Len(layout) |-> layout[j].name]

CsvFile(header, rows) == [header |-> header, rows |-> rows]

\* Sources pd.read_csv cannot read or has to pad: an empty file, a row with
\* a field too many, a row with a field too few.
RaggedFiles ==
    { CsvFile(<<>>, <<>>),
      CsvFile(<<c_Date, c_PriceGram>>, << <<Mon16, <<"9">>>>, <<Iso17, <<"1">>, <<"2">>>> >>),
      CsvFile(<<c_Date, c_PriceGram>>, << <<Iso17, <<"9">>>>, <<Mon16>> >>) }

\* uploaded_file is one of the bounded inputs: a layout with up to MaxRows
\* generated rows, or a ragged file.
IsIngestFile(f) ==
    \/ f \in RaggedFiles
    \/ \E l \in Layouts, k \in 0..MaxRows :
          \E rows \in [1..k -> RowsOf(l)] : f = CsvFile(HeaderOf(l), rows)

----------------------------------------------------------------------------
(* SpecIngest: process_csv on every bounded input *)

Pending == [done |-> FALSE, df |-> NoneDF, date_col |-> NoneStr, price_col |-> NoneStr]

SessionUnused ==
    /\ file1 = NoFile /\ file2 = NoFile /\ mode = "Overview Analytics"
    /\ data_1 = NoneDF /\ data_2 = NoneDF /\ pc = "idle"
    /\ view = View("landing", NoFilter, NoneDF)

MetricsUnused == prices = <<>> /\ derived = <<>>

IngestUnused == uploaded_file = NoFile /\ result = Pending

InitIngest ==
    /\ IsIngestFile(uploaded_file)
    /\ result = Pending
    /\ SessionUnused
    /\ MetricsUnused

Ingest ==
    /\ ~result.done
    /\ result' = process_csv(uploaded_file)
    /\ UNCHANGED <<file1, file2, mode, data_1, data_2, pc, view, uploaded_file, prices, derived>>

NextIngest == Ingest

SpecIngest == InitIngest /\ [][NextIngest]_vars

----------------------------------------------------------------------------
(* Claims about process_csv, checked under SpecIngest *)

Returned == result.done /\ ~result.df.is_none

\* The stripped headers of the input.
InputColumns == [j \in 1..Len(uploaded_file.header) |-> Strip(uploaded_file.header[j])]

UpperCase == <<"A", "B", "C", "D", "E", "F", "G", "H", "I", "J", "K", "L", "M",
               "N", "O", "P", "Q", "R", "S", "T", "U", "V", "W", "X", "Y", "Z">>
LowerCase == <<"a", "b", "c", "d", "e", "f", "g", "h", "i", "j", "k", "l", "m",
               "n", "o", "p", "q", "r", "s", "t", "u", "v", "w", "x", "y", "z">>

LowerChar(c) ==
    IF \E k \in 1..26 : UpperCase[k] = c
    THEN LowerCase[CHOOSE k \in 1..26 : UpperCase[k] = c]
    ELSE c

Lower(s) == [i \in 1..Len(s) |-> LowerChar(s[i])]

MinOf(S) == CHOOSE i \in S : \A j \in S : i <= j

NoRepeatedName(columns) == \A i, j \in 1..Len(columns) : columns[i] = columns[j] => i = j

\* C1: the table process_csv returns is sorted non-decreasing by its date
\* column, and every row of it has a date and a price (neither is missing).
C1_IngestSortedNonNull ==
    Returned =>
        LET di == IndexOf(result.df.columns, result.date_col)
            pi == IndexOf(result.df.columns, result.price_col)
            rows == result.df.rows
        IN  /\ \A i \in 1..Len(rows) : IsTs(rows[i][di]) /\ IsNum(rows[i][pi])
            /\ \A i \in 1..(Len(rows) - 1) : rows[i][di][2] <= rows[i + 1][di][2]

\* C1 witness: an input whose first row is the later day and which holds a
\* row that does not parse; two rows are returned, the earlier day first.
C1_Witness ==
    /\ Returned
    /\ Len(result.df.rows) = 2
    /\ Len(uploaded_file.rows) = 3
    /\ LET di == IndexOf(result.df.columns, result.date_col)
       IN  /\ uploaded_file.rows[1][di] = Iso17
           /\ result.df.rows[1][di] = Ts(16)
           /\ result.df.rows[2][di] = Ts(17)

DateParses(cell) == cell \in {Iso17, Mon16, Mon17}
PriceParses(cell) == IsNumericLiteral(Strip(Remove(Remove(cell, "₹"), ",")))

RawCell(i, j) == IF j > Len(uploaded_file.rows[i]) THEN <<>> ELSE uploaded_file.rows[i][j]

CountRows(rows, r) == Cardinality({i \in 1..Len(rows) : rows[i] = r})

\* C6: of an input whose Date and price columns resolve, process_csv keeps
\* exactly the rows whose date and price both parse (coerced, whatever their
\* other fields hold) and drops the others; the load itself does not fail.
C6_DropsExactlyBadRows ==
    LET cols == InputColumns
        D == {j \in 1..Len(cols) : HasDate(cols[j])}
        P == {j \in 1..Len(cols) : HasPrice(cols[j])}
    IN  (result.done /\ ~ReadCsvRaises(uploaded_file) /\ NoRepeatedName(cols)
            /\ D # {} /\ P # {}) =>
            LET di == MinOf(D)
                pi == MinOf(P)
                good == {i \in 1..Len(uploaded_file.rows) :
                            DateParses(RawCell(i, di)) /\ PriceParses(RawCell(i, pi))}
                Coerced(i) ==
                    [j \in 1..Len(cols) |->
                        IF j = di THEN ToDatetime(RawCell(i, di))
                        ELSE IF j = pi THEN ToNumeric(Strip(Remove(Remove(RawCell(i, pi), "₹"), ",")))
                        ELSE ReadCell(uploaded_file, i, j)]
                out == result.df.rows
            IN  /\ ~result.df.is_none
                /\ Len(out) = Cardinality(good)
                /\ \A i \in good :
                      CountRows(out, Coerced(i)) =
                          Cardinality({k \in good : Coerced(k) = Coerced(i)})

\* C6 witness: a row is dropped for its date or price, and a row is kept
\* although its optional Trend field is missing.
C6_Witness ==
    /\ Returned
    /\ HasColumn(result.df.columns, c_Trend)
    /\ Len(result.df.rows) >= 1
    /\ Len(result.df.rows) < Len(uploaded_file.rows)
    /\ \E i \in 1..Len(result.df.rows) :
          result.df.rows[i][IndexOf(result.df.columns, c_Trend)] = NaN

----------------------------------------------------------------------------
(* SpecMetrics: the derived series on every bounded price column *)

MaxSeries == 8
MaxPrice == 2

NotDerived == [done |-> FALSE, MA7 |-> <<>>, Returns |-> <<>>]

InitMetrics ==
    /\ \E n \in 0..MaxSeries : \E s \in [1..n -> 0..MaxPrice] :
          prices = [i \in 1..n |-> Num(s[i])]
    /\ derived = NotDerived
    /\ SessionUnused
    /\ IngestUnused

Derive ==
    /\ ~derived.done
    /\ derived' = [done |-> TRUE, MA7 |-> MA7(prices), Returns |-> Returns(prices)]
    /\ UNCHANGED <<file1, file2, mode, data_1, data_2, pc, view, uploaded_file, result, prices>>

NextMetrics == Derive

SpecMetrics == InitMetrics /\ [][NextMetrics]_vars

\* C7 as stated: Returns has no entry for the first row, is missing where
\* the previous price is 0, and is (p[i] - p[i-1]) / p[i-1] * 100 elsewhere.
C7_PeriodChangeNullOnZero ==
    derived.done =>
        /\ Len(derived.Returns) = Len(prices)
        /\ \A i \in 1..Len(prices) :
              IF i = 1 \/ prices[i - 1][2] = 0
              THEN derived.Returns[i] = NaN
              ELSE /\ derived.Returns[i][1] = "frac"
                   /\ derived.Returns[i][2] * prices[i - 1][2] =
                          (prices[i][2] - prices[i - 1][2]) * 100 * derived.Returns[i][3]

\* C8: MA7 is as long as the column, missing at each of the first six
\* positions and the mean of the seven most recent prices from the seventh.
C8_MovingAverage ==
    derived.done =>
        /\ Len(derived.MA7) = Len(prices)
        /\ \A i \in 1..Len(prices) :
              IF i < Window
              THEN derived.MA7[i] = NaN
              ELSE LET recent == {k \in 1..Len(prices) : i - Window < k /\ k <= i}
                       Total[S \in SUBSET recent] ==
                           IF S = {} THEN 0
                           ELSE LET k == CHOOSE x \in S : TRUE
                                IN  prices[k][2] + Total[S \ {k}]
                   IN  /\ derived.MA7[i][1] = "frac"
                       /\ derived.MA7[i][3] # 0
                       /\ derived.MA7[i][2] * Window = Total[recent] * derived.MA7[i][3]

\* C8 witness: a column of eight prices that are not all equal, averaged.
C8_Witness ==
    /\ derived.done
    /\ Len(prices) = MaxSeries
    /\ prices[1] # prices[MaxSeries]
    /\ derived.MA7[Window - 1] = NaN
    /\ derived.MA7[Window] # derived.MA7[MaxSeries]

----------------------------------------------------------------------------
(* Spec: the session *)

MaxLedger == 4      \* Add Entry is offered while the ledger has fewer rows

\* The expected format (line 241), with a formatted price, a missing Trend
\* and a row that does not parse.
StdFile ==
    CsvFile(<<c_Date, c_PriceGram, c_Trend>>,
            << <<Iso17, <<"₹", " ", "1", ",", "2">>, <<"U", "p">>>>,
               <<Mon16, <<"9">>, <<>>>>,
               <<<<"n", "/", "a">>, <<"a", "b", "c">>, <<"U", "p">>>> >>)

\* The expected column names without Trend; one price of 0.
PlainFile == CsvFile(<<c_Date, c_PriceGram>>, << <<Mon17, <<"0">>>> >>)

\* Date and price columns under other names than line 104's.
LowerFile == CsvFile(<<c_date, c_price>>, << <<Mon16, <<"9">>>> >>)

\* No Date column, and a source read_csv cannot read.
NoDateFile == CsvFile(<<c_Trend, c_PriceGram>>, << <<<<"U", "p">>, <<"9">>>> >>)
EmptyFile == CsvFile(<<>>, <<>>)

SessionFiles == {StdFile, PlainFile, LowerFile, NoDateFile, EmptyFile}
SecondaryFiles == {PlainFile, NoDateFile}

NewDates == {15, 18}
NewPrices == {0, 10}
NewTrends == {<<"R", "i", "s", "i", "n", "g">>}

\* lines 80-83, and the first run of the script: the landing page
Init ==
    /\ file1 = NoFile /\ file2 = NoFile
    /\ mode = "Overview Analytics"
    /\ data_1 = NoneDF /\ data_2 = NoneDF
    /\ pc = "idle"
    /\ view = View("landing", NoFilter, NoneDF)
    /\ IngestUnused
    /\ MetricsUnused

\* One run of the script without a form submit, the widgets holding f1, f2,
\* m and, on the Overview page, the filter flt.
Run(f1, f2, m, flt) ==
    LET df1 == Sidebar(f1, data_1)
        df2 == Sidebar(f2, data_2)
        page == MainLogic(m, df1, df2, flt)
    IN  /\ file1' = f1 /\ file2' = f2 /\ mode' = m
        /\ data_1' = page.data_1
        /\ data_2' = df2
        /\ view' = page.view
        /\ pc' = "idle"
        /\ UNCHANGED <<uploaded_file, result, prices, derived>>

\* The filter a run shows when the user did not touch it.
RunAsShown(f1, f2, m) ==
    Run(f1, f2, m,
        IF m = "Overview Analytics" /\ mode = m THEN FilterShown(Sidebar(f1, data_1))
        ELSE IF ExpanderRenders(Sidebar(f1, data_1)) THEN DefaultFilter(Sidebar(f1, data_1))
        ELSE NoFilter)

Upload1 == pc = "idle" /\ \E f \in SessionFiles : RunAsShown(<<f>>, file2, mode)

Clear1 == pc = "idle" /\ file1 # NoFile /\ RunAsShown(NoFile, file2, mode)

Upload2 == pc = "idle" /\ \E f \in SecondaryFiles : RunAsShown(file1, <<f>>, mode)

Clear2 == pc = "idle" /\ file2 # NoFile /\ RunAsShown(file1, NoFile, mode)

SwitchMode == pc = "idle" /\ \E m \in Modes \ {mode} : RunAsShown(file1, file2, m)

\* The user moves one of the Overview filters.
ChangeFilter ==
    /\ pc = "idle"
    /\ mode = "Overview Analytics"
    /\ view.filter.chosen
    /\ \E flt \in FilterChoices(Sidebar(file1, data_1)) \ {view.filter} :
          Run(file1, file2, mode, flt)

\* "Sync to Cloud": the run in which form_submit_button is true, up to
\* st.rerun() (lines 225-229).  The form is on the page when the last run
\* reached the Data Management branch.
SubmitEntry ==
    /\ pc = "idle"
    /\ mode = "Data Management"
    /\ ~data_1.is_none
    /\ Len(data_1.rows) < MaxLedger
    /\ ~Sidebar(file1, data_1).is_none
    /\ \E new_date \in NewDates, new_price \in NewPrices, new_trend \in NewTrends :
          data_1' = AppendRow(Sidebar(file1, data_1), new_date, new_price, new_trend)
    /\ data_2' = Sidebar(file2, data_2)
    /\ pc' = "rerun"
    /\ UNCHANGED <<file1, file2, mode, view, uploaded_file, result, prices, derived>>

\* The run st.rerun() asked for.
Rerun == pc = "rerun" /\ RunAsShown(file1, file2, mode)

Next ==
    \/ Upload1 \/ Clear1 \/ Upload2 \/ Clear2
    \/ SwitchMode \/ ChangeFilter \/ SubmitEntry \/ Rerun

Spec == Init /\ [][Next]_vars

----------------------------------------------------------------------------
(* Claims about the session, checked under Spec *)

\* Row r of frame old is a row of frame new, on old's columns.
RowKept(old, new, r) ==
    \E k \in 1..Len(new.rows) :
        \A j \in 1..Len(old.columns) :
            /\ HasColumn(new.columns, old.columns[j])
            /\ new.rows[k][IndexOf(new.columns, old.columns[j])] = r[j]

\* The frame's Date and price columns, as process_csv resolves them, are the
\* ones line 104 names.
ExpectedFormat(df) ==
    /\ SelectSeq(df.columns, HasDate) # <<>>
    /\ SelectSeq(df.columns, HasPrice) # <<>>
    /\ SelectSeq(df.columns, HasDate)[1] = d_col
    /\ SelectSeq(df.columns, HasPrice)[1] = p_col

\* C2 as stated: a load that fails leaves the session table it found; a
\* failed upload never puts an absent table in the place of a loaded one.
C2_FailedLoadKeepsTable ==
    [][/\ (file1' # NoFile /\ ~data_1.is_none /\ process_csv(file1'[1]).df.is_none)
            => data_1' = data_1
       /\ (file2' # NoFile /\ ~data_2.is_none /\ process_csv(file2'[1]).df.is_none)
            => data_2' = data_2]_vars

\* C3 as stated: a row of the session table, an appended one included, is
\* still in the table after every run that brings no new upload (the primary
\* uploader is left as it is or emptied), the rerun after the submit included.
\* Stated of tables in the expected format, whose columns line 104 names.
C3_AppendedRowPersists ==
    [][(/\ ~data_1.is_none
        /\ ExpectedFormat(data_1)
        /\ (file1' = file1 \/ file1' = NoFile)) =>
            /\ ~data_1'.is_none
            /\ \A i \in 1..Len(data_1.rows) : RowKept(data_1, data_1', data_1.rows[i])]_vars

\* C4 as stated: the session table is sorted ascending by its resolved date
\* column and no row of it lacks a date or a price, after any sequence of
\* loads and Add Entry submits.
C4_SessionTableNormalized ==
    ~data_1.is_none =>
        LET cols == data_1.columns
            di == MinOf({j \in 1..Len(cols) : HasDate(cols[j])})
            pi == MinOf({j \in 1..Len(cols) : HasPrice(cols[j])})
            rows == data_1.rows
        IN  /\ \A i \in 1..Len(rows) : IsTs(rows[i][di]) /\ IsNum(rows[i][pi])
            /\ \A i \in 1..(Len(rows) - 1) : rows[i][di][2] <= rows[i + 1][di][2]

\* C9: a run that only renders (the user switches the mode or moves a
\* filter; no upload, no submit) leaves both session tables with the same
\* columns and the same rows in the same order.
C9_ViewsDoNotMutate ==
    [][(pc = "idle" /\ pc' = "idle" /\ file1' = file1 /\ file2' = file2) =>
            (data_1' = data_1 /\ data_2' = data_2)]_vars

\* C9 witness: the Overview page drawn from a filtered frame that carries
\* MA7 and Returns, while the session table has neither and all its rows.
C9_Witness ==
    /\ pc = "idle"
    /\ view.screen = "overview"
    /\ HasColumn(view.frame.columns, c_MA7)
    /\ HasColumn(view.frame.columns, c_Returns)
    /\ ~HasColumn(data_1.columns, c_MA7)
    /\ ~HasColumn(data_1.columns, c_Returns)
    /\ Len(view.frame.rows) < Len(data_1.rows)

\* C10 as stated: for a table process_csv accepted, the names the views read
\* (d_col, p_col) are the names it resolved, and are columns of the table.
C10_ViewColumnsResolved ==
    (pc = "idle" /\ file1 # NoFile /\ ~data_1.is_none) =>
        /\ process_csv(file1[1]).date_col = d_col
        /\ process_csv(file1[1]).price_col = p_col
        /\ HasColumn(data_1.columns, d_col)
        /\ HasColumn(data_1.columns, p_col)

\* Not a claim's formula: where the columns are the ones line 104 names, an
\* Add Entry submit does leave the table sorted and without gaps.
NormalizedInExpectedFormat ==
    (~data_1.is_none /\ ExpectedFormat(data_1)) => C4_SessionTableNormalized

====
